---- MODULE Spec2Model ----
(***************************************************************************)
(* wallit-server: the user controller (createUser, authenticateUser,       *)
(* findUserByEmail), the field validator, the error factory / handler and  *)
(* the users table, as a state machine.  Every handler is an async         *)
(* function: one action per synchronous stretch between two awaits, so     *)
(* that requests interleave exactly where the code can be suspended.       *)
(* validateEmail and getUserByEmail are async functions themselves: when   *)
(* one of them returns or throws, its caller is resumed in a later step.   *)
(* An await on the database takes two steps: the database runs the         *)
(* statement (the table is read or written) while the handler is still     *)
(* suspended, and later the handler is resumed with the result.            *)
(* Sequelize's createdAt / updatedAt columns are left out of the rows.     *)
(***************************************************************************)
EXTENDS Integers, Sequences, FiniteSets, TLC

VARIABLES store, nextId, slot, ledger

vars == <<store, nextId, slot, ledger>>

\* ---------------------------------------------------------------- bounds
\* most rows the table may hold (createUser is not started beyond it)
MaxUsers == 2

\* number of distinct salts bcrypt.hash may draw
NumSalts == 1

\* ------------------------------------------------------ JavaScript values
Undef == [t |-> "undefined", s |-> "", n |-> 0]
Str(x) == [t |-> "string", s |-> x, n |-> 0]
Num(x) == [t |-> "number", s |-> "", n |-> x]

\* JavaScript truthiness of a value ("" , 0 and undefined are falsy)
Truthy(v) == \/ (v.t = "string" /\ v.s # "")
             \/ (v.t = "number" /\ v.n # 0)

\* entity[field]: undefined when the object has no such key
Get(o, f) == IF f \in DOMAIN o THEN o[f] ELSE Undef

\* an object literal / parsed JSON body: the keys that carry a value
Obj(f) == [k \in {x \in DOMAIN f : f[x] # Undef} |-> f[k]]

\* req.body / req.query: either undefined or an object
NoEntity == [defined |-> FALSE, o |-> Obj([k \in {} |-> Undef])]
Entity(o) == [defined |-> TRUE, o |-> o]

\* ------------------------------------------------------------ lib/error.js
\* an Error thrown by a library carries no code
LibError(message) == [code |-> 0, message |-> message]
NoError == [code |-> 0, message |-> ""]

createError(code, message) ==
    [code |-> IF code = 0 THEN 500 ELSE code,
     message |-> IF message = "" THEN "Oops! something went wrong." ELSE message]

NoResp == [status |-> 0, kind |-> "none", text |-> "", json |-> Obj([k \in {} |-> Undef])]
SendText(status, text) == [status |-> status, kind |-> "text", text |-> text,
                           json |-> Obj([k \in {} |-> Undef])]
SendJson(status, o) == [status |-> status, kind |-> "json", text |-> "", json |-> o]

errorHandler(error) ==
    SendText(IF error.code = 0 THEN 500 ELSE error.code,
             IF error.message = "" THEN "Oops! Something went wrong" ELSE error.message)

\* ---------------------------------------------------------- lib/helpers.js
Thrown(e) == [threw |-> TRUE, error |-> e]
Returned == [threw |-> FALSE, error |-> NoError]

\* mutant: a field counts as missing only when it is undefined, so an empty
\* string passes
FirstViolation_OnlyUndefined(entity, rules, fieldsToValidate) ==
    LET bad == {i \in 1..Len(fieldsToValidate) :
                   /\ fieldsToValidate[i] \in DOMAIN rules
                   /\ rules[fieldsToValidate[i]] # ""
                   /\ Get(entity.o, fieldsToValidate[i]) = Undef}
    IN IF bad = {} THEN 0 ELSE CHOOSE i \in bad : \A j \in bad : i <= j

\* mutant: the last violated field is reported instead of the first
FirstViolation_Last(entity, rules, fieldsToValidate) ==
    LET bad == {i \in 1..Len(fieldsToValidate) :
                   /\ fieldsToValidate[i] \in DOMAIN rules
                   /\ rules[fieldsToValidate[i]] # ""
                   /\ ~Truthy(Get(entity.o, fieldsToValidate[i]))}
    IN IF bad = {} THEN 0 ELSE CHOOSE i \in bad : \A j \in bad : i >= j

\* index of the first field of fieldsToValidate that has a rule and a falsy
\* value in the entity; 0 when there is none
FirstViolation(entity, rules, fieldsToValidate) ==
    LET bad == {i \in 1..Len(fieldsToValidate) :
                   /\ fieldsToValidate[i] \in DOMAIN rules
                   /\ rules[fieldsToValidate[i]] # ""
                   /\ ~Truthy(Get(entity.o, fieldsToValidate[i]))}
    IN IF bad = {} THEN 0 ELSE CHOOSE i \in bad : \A j \in bad : i <= j

validateFields(entityToValidate, rules, fieldsToValidate) ==
    IF ~entityToValidate.defined \/ DOMAIN entityToValidate.o = {}
    THEN Thrown(createError(400, "Entity to validate cannot be undefined or empty"))
    ELSE IF DOMAIN rules = {}
    THEN Thrown(createError(400, "Rules cannot be undefined or empty"))
    ELSE IF Len(fieldsToValidate) = 0
    THEN Thrown(createError(400, "Fields to validate cannot be undefined or empty"))
    ELSE LET i == FirstViolation(entityToValidate, rules, fieldsToValidate)
         IN IF i = 0 THEN Returned
            ELSE Thrown(createError(400, rules[fieldsToValidate[i]] \o " cannot be undefined"))

\* ------------------------------------------------------ controllers/user.js
validationRules ==
    [k \in {"id", "firstname", "lastname", "email", "password"} |->
        CASE k = "id" -> "ID"
          [] k = "firstname" -> "Firstname"
          [] k = "lastname" -> "Lastname"
          [] k = "email" -> "Email"
          [] k = "password" -> "Password"]

validateUser(user, fieldsToValidate) ==
    IF ~user.defined THEN Thrown(createError(400, "User cannot be undefined"))
    ELSE validateFields(user, validationRules, fieldsToValidate)

\* the cost factor handed to bcrypt.hash
HashCost == 12

\* ---------------------------------------------------------------- bcryptjs
Salts == {"salt" \o ToString(i) : i \in 1..NumSalts}

\* the stored string: version, cost, salt and a digest of the plaintext
BcryptDigest(s, salt) == "$2a$" \o ToString(HashCost) \o "$" \o salt \o "." \o s

\* bcrypt.compare re-hashes the plaintext under the salt found in the hash
BcryptCompare(s, hash) == \E salt \in Salts : hash = BcryptDigest(s, salt)

\* ------------------------------------------------------------ models/User.js
Columns == {"id", "firstname", "lastname", "email", "password"}

\* validate: { isEmail: true }
EmailShaped == {"a@x.io", "b@x.io"}
isEmail(v) == v.t = "string" /\ v.s \in EmailShaped

\* User.findOne({ where: { email } }): the rows the query may return
\* (no ORDER BY: any matching row)
WhereEmail(email) == {u \in store : u["email"] = email}

\* mutant: the attributes option is dropped and the whole row is returned
Attributes_All(u, cols) == u

\* attributes: [...] keeps only the listed columns of the row
Attributes(u, cols) == [k \in cols |-> u[k]]

Max(a, b) == IF a >= b THEN a ELSE b

\* the id User.create inserts: the body's id when it has one, else AUTO_INCREMENT
InsertId(user) ==
    IF Truthy(Get(user, "id")) /\ Get(user, "id").t = "number"
    THEN Get(user, "id").n ELSE nextId

\* the row User.create(user) builds from the model's attributes
BuildRow(user) ==
    [k \in Columns |-> IF k = "id" THEN Num(InsertId(user)) ELSE Get(user, k)]

\* what User.create rejects with, or NoError
CreateError(user) ==
    IF \E k \in Columns \ {"id"} : Get(user, k) = Undef
    THEN LibError("notNull Violation: a column cannot be null")
    ELSE IF ~isEmail(Get(user, "email"))
    THEN LibError("Validation error: Validation isEmail on email failed")
    ELSE IF \E u \in store : u["id"] = Num(InsertId(user))
    THEN LibError("Validation error")
    ELSE NoError

\* ------------------------------------------------------------------ inputs
Slots == {"r1", "r2"}

\* the values a request may carry for each field
Ids == {Undef, Num(2)}
FirstNames == {Undef, Str(""), Str("Ann")}
LastNames == {Undef, Str(""), Str("Lee")}
Emails == {Undef, Str(""), Str("a@x.io"), Str("b@x.io"), Str("nomail")}
Passwords == {Undef, Str(""), Str("pw1"), Num(7)}
\* authenticateUser is also tried with a string that is nobody's password
Guesses == Passwords \cup {Str("pw2")}

\* every body, query and credentials object over these values
Wide ==
    [create |-> {NoEntity} \cup
                {Entity(Obj(f)) : f \in [id : Ids, firstname : FirstNames,
                                         lastname : LastNames, email : Emails,
                                         password : Passwords]},
     auth |-> {NoEntity} \cup
              {Entity(Obj(f)) : f \in [email : Emails, password : Guesses]},
     query |-> {Entity(Obj(f)) : f \in [email : Emails]}]

\* the requests that are interleaved: one value per way a handler can end;
\* a create body is well-formed up to its id, email and password, or is an
\* otherwise registrable body whose firstname or lastname is missing or empty
Narrow ==
    [create |-> {Entity(Obj(f)) : f \in [id : Ids, firstname : {Str("Ann")},
                                         lastname : {Str("Lee")},
                                         email : {Str("a@x.io"), Str("nomail")},
                                         password : {Str("pw1"), Num(7)}]}
                \cup
                {Entity(Obj(f)) : f \in {g \in [id : {Undef}, firstname : FirstNames,
                                                lastname : {Str(""), Str("Lee")},
                                                email : {Str("a@x.io")},
                                                password : {Str("pw1")}] :
                                            ~Truthy(g.firstname) \/ ~Truthy(g.lastname)}},
     auth |-> {Entity(Obj(f)) : f \in [email : {Undef, Str("a@x.io")},
                                       password : {Str("pw1"), Str("pw2"), Num(7)}]},
     query |-> {Entity(Obj(f)) : f \in [email : {Undef, Str("a@x.io"), Str("b@x.io")}]}]

\* ------------------------------------------------------------------- state
\* found: what the pending findOne read; saved / failure: what the pending
\* User.create did (savedUser, or the error it rejects with)
Idle == [pc |-> "idle", op |-> "none", req |-> NoEntity, hashed |-> "",
         found |-> {}, saved |-> {}, failure |-> NoError, resp |-> NoResp]

Init ==
    /\ store = {}
    /\ nextId = 1
    /\ slot = [r \in Slots |-> Idle]
    /\ ledger = {}

Free(r) == slot[r].pc \in {"idle", "done"}

\* the createUser requests under way that have not inserted their row yet
InFlightCreates ==
    {r \in Slots : slot[r].op = "createUser" /\ ~Free(r) /\ slot[r].saved = {}}

Begin(r, op, req) ==
    [pc |-> "idle", op |-> op, req |-> req, hashed |-> "", found |-> {},
     saved |-> {}, failure |-> NoError, resp |-> NoResp]

\* next(error): the error handler answers and the request is over
Fail(s, error) == [s EXCEPT !.pc = "done", !.resp = errorHandler(error)]
Answer(s, resp) == [s EXCEPT !.pc = "done", !.resp = resp]

\* --------------------------------------------------------------- database
\* the handlers suspended at await User.findOne whose query has not run yet
Querying == {"validateEmail.query", "findOne.query", "getUserByEmail.query"}
Replying(pc) == CASE pc = "validateEmail.query" -> "validateEmail"
                  [] pc = "findOne.query" -> "findOne"
                  [] pc = "getUserByEmail.query" -> "getUserByEmail"

\* the database runs the SELECT of a pending User.findOne: the handler stays
\* suspended, the row it will be resumed with is fixed now
findOneExecuted(r) ==
    /\ slot[r].pc \in Querying
    /\ LET rows == WhereEmail(Get(slot[r].req.o, "email"))
       IN IF rows = {}
          THEN slot' = [slot EXCEPT ![r] =
                   [slot[r] EXCEPT !.pc = Replying(slot[r].pc), !.found = {}]]
          ELSE \E u \in rows :
                 slot' = [slot EXCEPT ![r] =
                     [slot[r] EXCEPT !.pc = Replying(slot[r].pc), !.found = {u}]]
    /\ UNCHANGED <<store, nextId, ledger>>

\* mutant: the insert replaces a row that has the same email (an upsert)
createExecuted_Upsert(r) ==
    /\ slot[r].pc = "create.query"
    /\ LET user == [slot[r].req.o EXCEPT !["password"] = Str(slot[r].hashed)]
           err == CreateError(user)
           row == BuildRow(user)
       IN IF err # NoError
          THEN /\ slot' = [slot EXCEPT ![r] =
                     [slot[r] EXCEPT !.pc = "create", !.failure = err]]
               /\ UNCHANGED <<store, nextId, ledger>>
          ELSE /\ store' = {u \in store : u["email"] # row["email"]} \cup {row}
               /\ nextId' = Max(nextId, row["id"].n + 1)
               /\ ledger' = ledger \cup
                     {[row |-> row, plain |-> Get(slot[r].req.o, "password"),
                       auto |-> ~Truthy(Get(slot[r].req.o, "id")), by |-> r]}
               /\ slot' = [slot EXCEPT ![r] =
                     [slot[r] EXCEPT !.pc = "create", !.saved = {row}]]

\* mutant: the row is written before it is validated, so a rejected create
\* leaves it behind
createExecuted_InsertOnError(r) ==
    /\ slot[r].pc = "create.query"
    /\ LET user == [slot[r].req.o EXCEPT !["password"] = Str(slot[r].hashed)]
           err == CreateError(user)
           row == BuildRow(user)
       IN /\ store' = {u \in store : u["id"] # row["id"]} \cup {row}
          /\ nextId' = Max(nextId, row["id"].n + 1)
          /\ IF err # NoError
             THEN /\ slot' = [slot EXCEPT ![r] =
                        [slot[r] EXCEPT !.pc = "create", !.failure = err]]
                  /\ UNCHANGED ledger
             ELSE /\ ledger' = ledger \cup
                        {[row |-> row, plain |-> Get(slot[r].req.o, "password"),
                          auto |-> ~Truthy(Get(slot[r].req.o, "id")), by |-> r]}
                  /\ slot' = [slot EXCEPT ![r] =
                        [slot[r] EXCEPT !.pc = "create", !.saved = {row}]]

\* User.create runs: the row is validated and inserted, or the create is
\* rejected; the handler stays suspended at line 27 until it is resumed
createExecuted(r) ==
    /\ slot[r].pc = "create.query"
    /\ LET user == [slot[r].req.o EXCEPT !["password"] = Str(slot[r].hashed)]
           err == CreateError(user)
           row == BuildRow(user)
       IN IF err # NoError
          THEN /\ slot' = [slot EXCEPT ![r] =
                     [slot[r] EXCEPT !.pc = "create", !.failure = err]]
               /\ UNCHANGED <<store, nextId, ledger>>
          ELSE /\ store' = store \cup {row}
               /\ nextId' = Max(nextId, row["id"].n + 1)
               /\ ledger' = ledger \cup
                     {[row |-> row, plain |-> Get(slot[r].req.o, "password"),
                       auto |-> ~Truthy(Get(slot[r].req.o, "id")), by |-> r]}
               /\ slot' = [slot EXCEPT ![r] =
                     [slot[r] EXCEPT !.pc = "create", !.saved = {row}]]

\* ------------------------------------------------------------- createUser
\* validateEmail up to its await: the falsy check, then the query is issued
validateEmailSync(email) ==
    IF ~Truthy(email) THEN Thrown(createError(400, "Email cannot be undefined"))
    ELSE Returned

\* lines 16-21: validateUser (a throw is caught and answered at once), then
\* validateEmail up to await User.findOne; createUser is suspended at line 21
createUser(r, in) ==
    /\ Free(r)
    /\ Cardinality(store) + Cardinality(InFlightCreates) < MaxUsers
    /\ \E body \in in.create :
         LET s == Begin(r, "createUser", body)
             v == validateUser(body, <<"firstname", "lastname", "email", "password">>)
             e == validateEmailSync(Get(body.o, "email"))
         IN slot' = [slot EXCEPT ![r] =
                IF v.threw THEN Fail(s, v.error)
                ELSE IF e.threw
                THEN [s EXCEPT !.pc = "createUser.resume", !.failure = e.error]
                ELSE [s EXCEPT !.pc = "validateEmail.query"]]
    /\ UNCHANGED <<store, nextId, ledger>>

\* mutant: the duplicate check is skipped
validateEmailResolved_NoCheck(r) ==
    /\ slot[r].pc = "validateEmail"
    /\ slot' = [slot EXCEPT ![r] = [slot[r] EXCEPT !.pc = "createUser.resume"]]
    /\ UNCHANGED <<store, nextId, ledger>>

\* lines 149-154: validateEmail is resumed with the row read and throws 409
\* when there is one, else returns; createUser is still suspended at line 21
validateEmailResolved(r) ==
    /\ slot[r].pc = "validateEmail"
    /\ slot' = [slot EXCEPT ![r] =
          IF slot[r].found # {}
          THEN [slot[r] EXCEPT !.pc = "createUser.resume",
                               !.failure = createError(409, "This email is already taken.")]
          ELSE [slot[r] EXCEPT !.pc = "createUser.resume"]]
    /\ UNCHANGED <<store, nextId, ledger>>

\* lines 21-24, 29-30: createUser is resumed after await validateEmail: the
\* error thrown there is answered, else bcrypt.hash is called
createUserResumed(r) ==
    /\ slot[r].pc = "createUser.resume"
    /\ slot' = [slot EXCEPT ![r] =
          IF slot[r].failure # NoError
          THEN Fail(slot[r], slot[r].failure)
          ELSE [slot[r] EXCEPT !.pc = "hash"]]
    /\ UNCHANGED <<store, nextId, ledger>>

\* mutant: the plaintext is saved, the hash is not put in its place
hashResolved_Plain(r) ==
    /\ slot[r].pc = "hash"
    /\ LET pw == Get(slot[r].req.o, "password")
       IN IF pw.t # "string"
          THEN slot' = [slot EXCEPT ![r] =
                   Fail(slot[r], LibError("Illegal arguments: " \o pw.t \o ", number"))]
          ELSE slot' = [slot EXCEPT ![r] =
                   [slot[r] EXCEPT !.pc = "create.query", !.hashed = pw.s]]
    /\ UNCHANGED <<store, nextId, ledger>>

\* lines 24-27: bcrypt.hash resolves (or rejects on a non-string) and
\* User.create is called with the hash in place of the password
hashResolved(r) ==
    /\ slot[r].pc = "hash"
    /\ LET pw == Get(slot[r].req.o, "password")
       IN IF pw.t # "string"
          THEN slot' = [slot EXCEPT ![r] =
                   Fail(slot[r], LibError("Illegal arguments: " \o pw.t \o ", number"))]
          ELSE \E salt \in Salts :
                 slot' = [slot EXCEPT ![r] =
                     [slot[r] EXCEPT !.pc = "create.query",
                                     !.hashed = BcryptDigest(pw.s, salt)]]
    /\ UNCHANGED <<store, nextId, ledger>>

\* lines 27-31: the handler is resumed after await User.create: 201 with
\* the saved row's id as text, or the rejection goes to the error handler
createResolved(r) ==
    /\ slot[r].pc = "create"
    /\ slot' = [slot EXCEPT ![r] =
          IF slot[r].saved = {}
          THEN Fail(slot[r], slot[r].failure)
          ELSE LET savedUser == CHOOSE u \in slot[r].saved : TRUE
               IN Answer(slot[r], SendText(201, ToString(savedUser["id"].n)))]
    /\ UNCHANGED <<store, nextId, ledger>>

\* -------------------------------------------------------- authenticateUser
\* lines 44-51: validateUser, then User.findOne is awaited
authenticateUser(r, in) ==
    /\ Free(r)
    /\ \E body \in in.auth :
         LET s == Begin(r, "authenticateUser", body)
             v == validateUser(body, <<"email", "password">>)
         IN slot' = [slot EXCEPT ![r] =
                IF v.threw THEN Fail(s, v.error)
                ELSE [s EXCEPT !.pc = "findOne.query"]]
    /\ UNCHANGED <<store, nextId, ledger>>

\* lines 47-53: the handler is resumed with the row read; 401 without a
\* row, else bcrypt.compare is called
authFindOneResolved(r) ==
    /\ slot[r].pc = "findOne"
    /\ slot' = [slot EXCEPT ![r] =
          IF slot[r].found = {}
          THEN Fail(slot[r], createError(401, "Invalid credentials"))
          ELSE [slot[r] EXCEPT !.pc = "compare"]]
    /\ UNCHANGED <<store, nextId, ledger>>

\* mutant: the row is sent as read, its password not overwritten
compareResolved_NoScrub(r) ==
    /\ slot[r].pc = "compare"
    /\ LET pw == Get(slot[r].req.o, "password")
           user == CHOOSE u \in slot[r].found : TRUE
       IN slot' = [slot EXCEPT ![r] =
            IF pw.t # "string" \/ user["password"].t # "string"
            THEN Fail(slot[r], LibError("Illegal arguments: " \o pw.t \o ", "
                                          \o user["password"].t))
            ELSE IF ~BcryptCompare(pw.s, user["password"].s)
            THEN Fail(slot[r], createError(401, "Invalid credentials"))
            ELSE Answer(slot[r], SendJson(200, user))]
    /\ UNCHANGED <<store, nextId, ledger>>

\* lines 53-55: bcrypt.compare resolves (or rejects on a non-string)
compareResolved(r) ==
    /\ slot[r].pc = "compare"
    /\ LET pw == Get(slot[r].req.o, "password")
           user == CHOOSE u \in slot[r].found : TRUE
       IN slot' = [slot EXCEPT ![r] =
            IF pw.t # "string" \/ user["password"].t # "string"
            THEN Fail(slot[r], LibError("Illegal arguments: " \o pw.t \o ", "
                                          \o user["password"].t))
            ELSE IF ~BcryptCompare(pw.s, user["password"].s)
            THEN Fail(slot[r], createError(401, "Invalid credentials"))
            ELSE Answer(slot[r], SendJson(200, [user EXCEPT !["password"] = Undef]))]
    /\ UNCHANGED <<store, nextId, ledger>>

\* --------------------------------------------------------- findUserByEmail
\* getUserByEmail up to its await
getUserByEmailSync(email) ==
    IF ~Truthy(email) THEN Thrown(createError(400, "Invalid email")) ELSE Returned

\* lines 70-72, 86-87: getUserByEmail is called and throws on a falsy email
\* or awaits User.findOne; findUserByEmail is suspended at line 72
findUserByEmail(r, in) ==
    /\ Free(r)
    /\ \E query \in in.query :
         LET s == Begin(r, "findUserByEmail", query)
             e == getUserByEmailSync(Get(query.o, "email"))
         IN slot' = [slot EXCEPT ![r] =
                IF e.threw
                THEN [s EXCEPT !.pc = "findUserByEmail.resume", !.failure = e.error]
                ELSE [s EXCEPT !.pc = "getUserByEmail.query"]]
    /\ UNCHANGED <<store, nextId, ledger>>

\* lines 87-95: getUserByEmail is resumed with the four listed columns of
\* the row read and returns it, or throws 400 without a row;
\* findUserByEmail is still suspended at line 72
getUserByEmailResolved(r) ==
    /\ slot[r].pc = "getUserByEmail"
    /\ slot' = [slot EXCEPT ![r] =
          IF slot[r].found = {}
          THEN [slot[r] EXCEPT !.pc = "findUserByEmail.resume",
                               !.failure = createError(400,
                                   "Could not find a user with the given email")]
          ELSE LET u == CHOOSE x \in slot[r].found : TRUE
               IN [slot[r] EXCEPT !.pc = "findUserByEmail.resume",
                                  !.found = {Attributes(u, {"id", "firstname",
                                                            "lastname", "email"})}]]
    /\ UNCHANGED <<store, nextId, ledger>>

\* lines 72-75: findUserByEmail is resumed after await getUserByEmail: 200
\* with the user's dataValues, or the error thrown there is answered
findUserByEmailResumed(r) ==
    /\ slot[r].pc = "findUserByEmail.resume"
    /\ slot' = [slot EXCEPT ![r] =
          IF slot[r].failure # NoError
          THEN Fail(slot[r], slot[r].failure)
          ELSE LET user == CHOOSE x \in slot[r].found : TRUE
               IN Answer(slot[r], SendJson(200, user))]
    /\ UNCHANGED <<store, nextId, ledger>>

\* ----------------------------------------------------------- specifications
Step(r, in) ==
    \/ createUser(r, in)
    \/ validateEmailResolved(r)
    \/ createUserResumed(r)
    \/ hashResolved(r)
    \/ createExecuted(r)
    \/ createResolved(r)
    \/ authenticateUser(r, in)
    \/ authFindOneResolved(r)
    \/ compareResolved(r)
    \/ findUserByEmail(r, in)
    \/ getUserByEmailResolved(r)
    \/ findUserByEmailResumed(r)
    \/ findOneExecuted(r)

\* requests interleave at their awaits
Next == \E r \in Slots : Step(r, Narrow)
Spec == Init /\ [][Next]_vars

\* one request at a time, each run to completion before the next starts
SeqNext == Step("r1", Wide)
SeqSpec == Init /\ [][SeqNext]_vars

\* ------------------------------------------------------------- observations
Done(r, op) == slot[r].pc = "done" /\ slot[r].op = op

\* the step has just answered a request of slot r
Responded(r) == slot'[r].pc = "done" /\ slot'[r] # slot[r]

Required == <<"firstname", "lastname", "email", "password">>
MissingIdx(o) == {i \in 1..Len(Required) : ~Truthy(Get(o, Required[i]))}
FirstMissing(o) == Required[CHOOSE i \in MissingIdx(o) : \A j \in MissingIdx(o) : i <= j]
Label(f) == CASE f = "firstname" -> "Firstname"
              [] f = "lastname" -> "Lastname"
              [] f = "email" -> "Email"
              [] f = "password" -> "Password"

UniqueEmails == \A u, w \in store : u["email"] = w["email"] => u = w

\* a stored string of bcrypt's shape made from plaintext p
HashOf(p, h) == \E salt \in Salts : h = Str(BcryptDigest(p, salt))

\* --------------------------------------------------------------------- C1
\* C1 as stated: under sequential execution, once a createUser with email E
\* has succeeded, every later createUser with email E is answered 409 and
\* inserts no row, and no two stored rows share an email.
C1_Original ==
    /\ [](UniqueEmails)
    /\ [][\A r \in Slots :
            (/\ Responded(r)
             /\ slot'[r].op = "createUser"
             /\ \E g \in ledger : /\ g.row["email"] = Get(slot'[r].req.o, "email")
                                   /\ g.row \notin slot'[r].saved)
            => (slot'[r].resp.status = 409 /\ slot'[r].saved = {})]_vars

\* C1 amended: under sequential execution, once a createUser with email E
\* has succeeded, every later createUser with email E whose firstname,
\* lastname, email and password are all truthy is answered 409 "This email is
\* already taken." and inserts no row; no two stored rows share an email.
C1_Sequential ==
    /\ [](UniqueEmails)
    /\ [][\A r \in Slots :
            (/\ Responded(r)
             /\ slot'[r].op = "createUser"
             /\ MissingIdx(slot'[r].req.o) = {}
             /\ \E g \in ledger : /\ g.row["email"] = Get(slot'[r].req.o, "email")
                                   /\ g.row \notin slot'[r].saved)
            => (/\ slot'[r].resp = SendText(409, "This email is already taken.")
                /\ slot'[r].saved = {})]_vars

C1_Witness ==
    /\ Done("r1", "createUser")
    /\ slot["r1"].resp.status = 409
    /\ \E g \in ledger : g.row["email"] = Get(slot["r1"].req.o, "email")

\* --------------------------------------------------------------------- C2
\* C2: two createUser requests with the same email that interleave at their
\* awaits can both be answered 201; whenever both are, the table holds two
\* rows with that email (the duplicate check does not stop the second insert).
C2_RaceDuplicates ==
    \A r, q \in Slots :
        (/\ r # q
         /\ Done(r, "createUser") /\ Done(q, "createUser")
         /\ slot[r].resp.status = 201 /\ slot[q].resp.status = 201
         /\ Get(slot[r].req.o, "email") = Get(slot[q].req.o, "email"))
        => /\ slot[r].resp.text # slot[q].resp.text
           /\ Cardinality(WhereEmail(Get(slot[r].req.o, "email"))) >= 2

C2_Witness ==
    /\ Done("r1", "createUser") /\ Done("r2", "createUser")
    /\ slot["r1"].resp.status = 201 /\ slot["r2"].resp.status = 201
    /\ Get(slot["r1"].req.o, "email") = Get(slot["r2"].req.o, "email")
    /\ \E u, w \in store : u # w /\ u["email"] = w["email"]
                           /\ u["email"] = Get(slot["r1"].req.o, "email")

\* --------------------------------------------------------------------- C3
PasswordMatches(pw, u) == pw.t = "string" /\ BcryptCompare(pw.s, u["password"].s)

\* C3: an authenticateUser with truthy email and truthy password is answered
\* 401 "Invalid credentials" both when no row has the email and when a row
\* has it but the password does not match its hash.
C3_Indistinguishable ==
    \A r \in Slots :
        (/\ Done(r, "authenticateUser")
         /\ Truthy(Get(slot[r].req.o, "email"))
         /\ Truthy(Get(slot[r].req.o, "password"))
         /\ \A u \in WhereEmail(Get(slot[r].req.o, "email")) :
               ~PasswordMatches(Get(slot[r].req.o, "password"), u))
        => slot[r].resp = SendText(401, "Invalid credentials")

\* --------------------------------------------------------------------- C4
\* C4: no response of the three routes carries a stored password hash: the
\* authenticateUser body has password undefined, the findUserByEmail body
\* has no password key, the createUser body is the id only.
C4_NoHashInResponse ==
    \A r \in Slots :
        LET resp == slot[r].resp IN
        /\ \A u \in store :
              /\ resp.text # u["password"].s
              /\ \A k \in DOMAIN resp.json : resp.json[k] # u["password"]
        /\ (Done(r, "authenticateUser") /\ resp.status = 200)
              => ("password" \in DOMAIN resp.json => resp.json["password"] = Undef)
        /\ (Done(r, "findUserByEmail") /\ resp.status = 200)
              => "password" \notin DOMAIN resp.json
        /\ (Done(r, "createUser") /\ resp.status = 201)
              => /\ resp.kind = "text"
                 /\ \E u \in store : resp.text = ToString(u["id"].n)

C4_Witness ==
    \E r, q \in Slots :
        /\ Done(r, "authenticateUser") /\ slot[r].resp.status = 200
        /\ Done(q, "findUserByEmail") /\ slot[q].resp.status = 200

\* --------------------------------------------------------------------- C5
\* C5 as stated: a createUser body with a required field missing or falsy is
\* answered 400 "<Label> cannot be undefined" for the first such field in
\* the order firstname, lastname, email, password, and no row is inserted.
C5_Original ==
    [][\A r \in Slots :
         (/\ Responded(r)
          /\ slot'[r].op = "createUser"
          /\ slot'[r].req.defined
          /\ MissingIdx(slot'[r].req.o) # {})
         => (/\ slot'[r].resp =
                  SendText(400, Label(FirstMissing(slot'[r].req.o)) \o " cannot be undefined")
             /\ slot'[r].saved = {}
             /\ store' = store)]_vars

\* C5 amended: as stated for every body that has at least one key; a body
\* with no keys at all is answered 400 "Entity to validate cannot be
\* undefined or empty"; in both cases no row is inserted.
C5_FirstMissingField ==
    [][\A r \in Slots :
         (/\ Responded(r)
          /\ slot'[r].op = "createUser"
          /\ slot'[r].req.defined
          /\ MissingIdx(slot'[r].req.o) # {})
         => (/\ slot'[r].resp =
                  IF DOMAIN slot'[r].req.o = {}
                  THEN SendText(400, "Entity to validate cannot be undefined or empty")
                  ELSE SendText(400, Label(FirstMissing(slot'[r].req.o))
                                        \o " cannot be undefined")
             /\ slot'[r].saved = {}
             /\ store' = store)]_vars

C5_Witness ==
    /\ Done("r1", "createUser")
    /\ MissingIdx(slot["r1"].req.o) = {2, 4}
    /\ slot["r1"].resp = SendText(400, "Lastname cannot be undefined")

\* --------------------------------------------------------------------- C6
\* C6: findUserByEmail(E) is answered 400 when E is absent or falsy or no row
\* has email E; otherwise 200 with exactly the fields id, firstname,
\* lastname, email of a stored row whose email is E.
C6_FindUserByEmail ==
    \A r \in Slots :
        Done(r, "findUserByEmail") =>
            LET E == Get(slot[r].req.o, "email")
                resp == slot[r].resp
            IN IF ~Truthy(E) \/ WhereEmail(E) = {}
               THEN resp.status = 400
               ELSE /\ resp.status = 200
                    /\ resp.kind = "json"
                    /\ DOMAIN resp.json = {"id", "firstname", "lastname", "email"}
                    /\ \E u \in store :
                          /\ u["email"] = E
                          /\ \A k \in DOMAIN resp.json : resp.json[k] = u[k]

C6_Witness ==
    /\ Done("r1", "findUserByEmail")
    /\ slot["r1"].resp.status = 200
    /\ Cardinality(store) = 2

\* --------------------------------------------------------------------- C7
\* C7: after createUser({F, L, E, P}) succeeded with id I, every later
\* authenticateUser({E, P}) is answered 200 with id I, F, L, E and no
\* password, and every later authenticateUser({E, P'}) with P' # P is
\* answered 401.
C7_RoundTrip ==
    \A r \in Slots : \A g \in ledger :
        (/\ Done(r, "authenticateUser")
         /\ Get(slot[r].req.o, "email") = g.row["email"]
         /\ Truthy(Get(slot[r].req.o, "password")))
        => IF Get(slot[r].req.o, "password") = g.plain
           THEN /\ slot[r].resp.status = 200
                /\ \A k \in {"id", "firstname", "lastname", "email"} :
                      Get(slot[r].resp.json, k) = g.row[k]
                /\ Get(slot[r].resp.json, "password") = Undef
           ELSE slot[r].resp.status = 401

\* --------------------------------------------------------------------- C8
\* C8: every stored row has a non-empty firstname, lastname and email, and
\* its password column holds the salted hash createUser computed from the
\* submitted password, never the submitted plaintext.
C8_StoredRows ==
    \A u \in store :
        /\ \A k \in {"firstname", "lastname", "email"} : u[k].t = "string" /\ u[k].s # ""
        /\ \E g \in ledger :
              /\ g.row = u
              /\ g.plain.t = "string"
              /\ HashOf(g.plain.s, u["password"])
              /\ u["password"] # g.plain

C8_Witness ==
    /\ \E u \in store : u["password"].s # ""
    /\ \E r \in Slots :
          /\ Done(r, "createUser")
          /\ "lastname" \in DOMAIN slot[r].req.o
          /\ slot[r].req.o["lastname"] = Str("")
          /\ Truthy(Get(slot[r].req.o, "firstname"))
          /\ slot[r].resp = SendText(400, "Lastname cannot be undefined")

\* --------------------------------------------------------------------- C9
\* C9: every row created by createUser gets an id assigned by the store, not
\* taken from the request body; no two rows share an id; a row's id never
\* changes; the 201 body is the id of the row this request inserted.
C9_StoreAssignedIds ==
    /\ \A g \in ledger : g.auto
    /\ \A u, w \in store : u["id"] = w["id"] => u = w
    /\ \A g \in ledger : g.row \in store
    /\ \A r \in Slots :
          (Done(r, "createUser") /\ slot[r].resp.status = 201)
          => \E g \in ledger : /\ g.by = r
                                /\ slot[r].saved = {g.row}
                                /\ slot[r].resp.text = ToString(g.row["id"].n)

\* -------------------------------------------------------------------- C10
\* C10: the table only grows, and only through a createUser answered 201,
\* which adds exactly one row; authenticateUser, findUserByEmail and a
\* createUser answered with an error leave it unchanged; no row is ever
\* modified or removed.  The table changes only in the step where User.create
\* of one createUser request inserts its one row (saved); a request answered
\* 201 has inserted exactly one row, a request answered otherwise none.
C10_StoreFrame ==
    [][/\ store \subseteq store'
       /\ store' # store =>
             \E r \in Slots :
                /\ slot[r].op = "createUser" /\ slot[r].saved = {}
                /\ slot'[r].op = "createUser" /\ slot'[r].req = slot[r].req
                /\ Cardinality(slot'[r].saved) = 1
                /\ store' = store \cup slot'[r].saved
                /\ Cardinality(store') = Cardinality(store) + 1
       /\ store' = store =>
             \A r \in Slots : slot'[r].saved = slot[r].saved \/ slot'[r].saved = {}
       /\ \A r \in Slots :
             Responded(r) =>
                /\ store' = store
                /\ IF slot'[r].op = "createUser" /\ slot'[r].resp.status = 201
                   THEN Cardinality(slot'[r].saved) = 1 /\ slot'[r].saved \subseteq store
                   ELSE slot'[r].saved = {}]_vars

C10_Witness ==
    \E r, q \in Slots :
        /\ Done(r, "createUser") /\ slot[r].resp.status = 409
        /\ Done(q, "authenticateUser") /\ slot[q].resp.status = 401
        /\ Cardinality(store) = 1

====
